---- MODULE Spec2Model ----
(***************************************************************************)
(* A model of src/src/api_fetcher.py: the retrying page fetch              *)
(* (fetch_one_page), the row flattening (to_lookup, parse_rows) and the    *)
(* module-level extraction loop over country_codes with its combine and    *)
(* summary steps.                                                          *)
(*                                                                         *)
(* The remote API is the environment: every request either raises a        *)
(* requests.exceptions.RequestException or returns a decoded JSON body     *)
(* drawn from Payloads(code).                                              *)
(***************************************************************************)
EXTENDS Integers, Sequences, FiniteSets, TLC

\* ------------------------------------------------------------------ bounds
\* how many of the configured country codes a run iterates over
NumCountries == 2
\* the largest total-page count a page-1 payload reports
MaxPages == 3
\* the largest max_retries a direct call of fetch_one_page is given
MaxRetriesBound == 3
\* the largest delay a direct call of fetch_one_page is given
MaxDelay == 2
\* the longest concept list a direct call of to_lookup / parse_rows is given
MaxItems == 3
\* the longest text after the first two characters of a time identifier
MaxSuffix == 3

\* ------------------------------------------------------- program constants
\* fetch_one_page(..., max_retries: int = 3, delay: float = 2.0)
DefaultMaxRetries == 3
DefaultDelay == 2

ALL_CODES == <<"EGY", "MAR", "SAU", "JOR", "TUN", "IRQ", "YEM", "OMN", "QAT",
               "BHR", "KWT", "DZA", "LBY">>
country_codes == SubSeq(ALL_CODES, 1, NumCountries)
Countries == 1..Len(country_codes)

\* ------------------------------------------------------------ JSON values
\* A JSON scalar as Python sees it.  Strings are sequences of one-character
\* strings so that prefixes and digits can be inspected.
JNull == [t |-> "null", n |-> 0, s |-> <<>>]
JStr(cs) == [t |-> "str", n |-> 0, s |-> cs]
\* an int (year) is kept as is
JInt(k) == [t |-> "int", n |-> k, s |-> <<>>]
\* a float is kept in tenths: 5.3 is JFloat(53)
JFloat(k) == [t |-> "float", n |-> k, s |-> <<>>]
NaN == [t |-> "nan", n |-> 0, s |-> <<>>]

Digits == <<"0", "1", "2", "3", "4", "5", "6", "7", "8", "9">>
IsDigit(c) == \E i \in 1..10 : Digits[i] = c
DigitVal(c) == (CHOOSE i \in 1..10 : Digits[i] = c) - 1

RECURSIVE DecVal(_)
DecVal(cs) == IF cs = <<>> THEN 0
              ELSE 10 * DecVal(SubSeq(cs, 1, Len(cs) - 1)) + DigitVal(cs[Len(cs)])

\* One concept entry of a row's "variable" list.  isdict is isinstance(item,
\* dict); hasconcept is "concept" in item; id/value are item.get(...) (JNull
\* when the key is missing).
Item(c, i, v) == [isdict |-> TRUE, hasconcept |-> TRUE, concept |-> c, id |-> i, value |-> v]
NoItem == [isdict |-> TRUE, hasconcept |-> FALSE, concept |-> "", id |-> JNull, value |-> JNull]

\* A "variable" value: a list of entries, or None.  A row without the key is
\* the same as an empty list (row.get("variable", [])).
ListVal(items) == [isnone |-> FALSE, items |-> items]
NoList == [isnone |-> TRUE, items |-> <<>>]

\* var_list or []
OrEmpty(var_list) == IF var_list.isnone THEN <<>> ELSE var_list.items

\* the loop of to_lookup: lookup[concept_name] = item for every entry that is
\* a dict with a "concept" key, in list order
RECURSIVE Inserted(_)
Inserted(items) ==
    IF items = <<>> THEN [c \in {} |-> NoItem]
    ELSE LET n == Len(items)
             item == items[n]
             lookup == Inserted(SubSeq(items, 1, n - 1))
         IN IF item.isdict /\ item.hasconcept
            THEN [c \in DOMAIN lookup \cup {item.concept} |->
                     IF c = item.concept THEN item ELSE lookup[c]]
            ELSE lookup

\* a to_lookup that keeps the first entry of each name
to_lookupFirstWins(var_list) ==
    LET items == OrEmpty(var_list)
    IN Inserted([i \in 1..Len(items) |-> items[Len(items) + 1 - i]])

\* to_lookup: a lookup by concept name; a later entry overwrites an earlier one
to_lookup(var_list) == Inserted(OrEmpty(var_list))

\* lk.get(name, {}).get(field)
LkGet(lk, name) == IF name \in DOMAIN lk THEN lk[name] ELSE NoItem

\* int(s) of Python on a character sequence: surrounding blanks are stripped,
\* one sign is allowed, and single underscores may separate digits.
\* [ok |-> FALSE] stands for ValueError.
RECURSIVE LStrip(_)
LStrip(cs) == IF cs # <<>> /\ cs[1] = " " THEN LStrip(Tail(cs)) ELSE cs
RECURSIVE RStrip(_)
RStrip(cs) == IF cs # <<>> /\ cs[Len(cs)] = " "
              THEN RStrip(SubSeq(cs, 1, Len(cs) - 1)) ELSE cs
Strip(cs) == RStrip(LStrip(cs))

\* digits with single underscores between them
GroupedDigits(cs) ==
    /\ cs # <<>>
    /\ \A i \in 1..Len(cs) : IsDigit(cs[i]) \/ cs[i] = "_"
    /\ cs[1] # "_" /\ cs[Len(cs)] # "_"
    /\ \A i \in 1..(Len(cs) - 1) : ~(cs[i] = "_" /\ cs[i + 1] = "_")

PyInt(cs) ==
    LET b == Strip(cs)
        signed == b # <<>> /\ b[1] \in {"+", "-"}
        body == IF signed THEN Tail(b) ELSE b
        ds == SelectSeq(body, IsDigit)
    IN IF GroupedDigits(body)
       THEN [ok |-> TRUE,
             val |-> IF signed /\ b[1] = "-" THEN 0 - DecVal(ds) ELSE DecVal(ds)]
       ELSE [ok |-> FALSE, val |-> 0]

\* year of a time identifier: int(time_id[2:]) when it is a str starting "YR",
\* None when it is not or when int raises ValueError
YearOf(time_id) ==
    IF time_id.t = "str" /\ Len(time_id.s) >= 2
       /\ time_id.s[1] = "Y" /\ time_id.s[2] = "R"
    THEN LET r == PyInt(SubSeq(time_id.s, 3, Len(time_id.s)))
         IN IF r.ok THEN JInt(r.val) ELSE JNull
    ELSE JNull

\* a parse_rows that reads the series fields from the "Country" entry
parse_rowsSeriesFromCountry(row) ==
    LET lk == to_lookup(row.variable)
    IN [country_id   |-> LkGet(lk, "Country").id,
        country_name |-> LkGet(lk, "Country").value,
        series_id    |-> LkGet(lk, "Country").id,
        series_name  |-> LkGet(lk, "Country").value,
        year         |-> YearOf(LkGet(lk, "Time").id),
        value        |-> row.value]

\* parse_rows: one raw row flattened into a tidy record
parse_rows(row) ==
    LET lk == to_lookup(row.variable)
    IN [country_id   |-> LkGet(lk, "Country").id,
        country_name |-> LkGet(lk, "Country").value,
        series_id    |-> LkGet(lk, "Series").id,
        series_name  |-> LkGet(lk, "Series").value,
        year         |-> YearOf(LkGet(lk, "Time").id),
        value        |-> row.value]

\* pd.to_numeric(column, errors="coerce") on one cell: None and text that is
\* not a number become NaN.  Text is read as digits with at most one
\* fractional digit (the floats of this model are kept in tenths).
ToNumeric(v) ==
    CASE v.t = "float" -> v
      [] v.t = "int" -> JFloat(10 * v.n)
      [] v.t = "str" ->
           LET cs == v.s
               dot == {i \in 1..Len(cs) : cs[i] = "."}
           IN IF dot = {}
              THEN (IF cs # <<>> /\ cs = SelectSeq(cs, IsDigit)
                    THEN JFloat(10 * DecVal(cs)) ELSE NaN)
              ELSE LET d == CHOOSE i \in dot : TRUE
                       ip == SubSeq(cs, 1, d - 1)
                       fp == SubSeq(cs, d + 1, Len(cs))
                   IN IF Cardinality(dot) = 1 /\ Len(fp) = 1 /\ IsDigit(fp[1])
                         /\ ip # <<>> /\ ip = SelectSeq(ip, IsDigit)
                      THEN JFloat(10 * DecVal(ip) + DigitVal(fp[1]))
                      ELSE NaN
      [] OTHER -> NaN

\* ---------------------------------------------------------- data frames
\* A DataFrame is the sequence of its rows.
IsDictRow(r) == r.isdict

\* [parse_rows(r) for r in rows if isinstance(r, dict)]
FlattenRows(rows) ==
    LET ds == SelectSeq(rows, IsDictRow)
    IN [i \in 1..Len(ds) |-> parse_rows(ds[i])]

\* the value column left as the source sent it
CoerceNothing(df) == df

\* df["value"] = pd.to_numeric(df["value"], errors="coerce")
Coerce(df) == [i \in 1..Len(df) |-> [df[i] EXCEPT !.value = ToNumeric(@)]]

\* pd.concat(frames, ignore_index=True)
RECURSIVE Concat(_)
Concat(frames) == IF frames = <<>> THEN <<>> ELSE Head(frames) \o Concat(Tail(frames))

\* every record tagged with the first code of the list
TaggedFirstCode(df, code) ==
    [i \in 1..Len(df) |->
        [country_id |-> df[i].country_id, country_name |-> df[i].country_name,
         series_id |-> df[i].series_id, series_name |-> df[i].series_name,
         year |-> df[i].year, value |-> df[i].value,
         requested_country |-> ALL_CODES[1]]]

\* df_country["requested_country"] = code
Tagged(df, code) ==
    [i \in 1..Len(df) |->
        [country_id |-> df[i].country_id, country_name |-> df[i].country_name,
         series_id |-> df[i].series_id, series_name |-> df[i].series_name,
         year |-> df[i].year, value |-> df[i].value, requested_country |-> code]]

\* Series.nunique(): the distinct values, None left out
NUnique(vals) == Cardinality(vals \ {JNull})

\* ------------------------------------------------------------- payloads
\* A decoded response body, or None.  haspages/hassource/hasdata say which of
\* "pages", "source" and "source"."data" the body holds.
Body(hp, n, hs, hd, rows) ==
    [isnone |-> FALSE, haspages |-> hp, pages |-> n,
     hassource |-> hs, hasdata |-> hd, data |-> rows]
\* return {}
EmptyDict == Body(FALSE, 0, FALSE, FALSE, <<>>)
\* the value of a call that falls off the end of the function
PyNone == [isnone |-> TRUE, haspages |-> FALSE, pages |-> 0,
           hassource |-> FALSE, hasdata |-> FALSE, data |-> <<>>]

\* bool(payload): None and the empty dict are falsy
Truthy(pl) == ~pl.isnone /\ (pl.haspages \/ pl.hassource)

\* payload.get("pages", 0): a body without "pages" counts as no page at all
PagesOfDefaultZero(pl) == IF pl.haspages THEN pl.pages ELSE 0

\* payload.get("pages", 1)
PagesOf(pl) == IF pl.haspages THEN pl.pages ELSE 1
\* payload.get("source", {}).get("data", [])
DataOf(pl) == IF pl.hassource /\ pl.hasdata THEN pl.data ELSE <<>>

\* ---------------------------------------------------- the remote source
\* Rows the source may send for a requested country: a full row of that
\* country, a row with no Country concept, no usable year and no value, and
\* an entry that is not an object.  The endpoint is per country: a row names
\* the requested country or none.
Chars2020 == <<"Y", "R", "2", "0", "2", "0">>
ALL_NAMES == <<"Egypt", "Morocco", "Saudi Arabia", "Jordan", "Tunisia", "Iraq",
               "Yemen", "Oman", "Qatar", "Bahrain", "Kuwait", "Algeria", "Libya">>
NameOf(code) == ALL_NAMES[CHOOSE i \in 1..Len(ALL_CODES) : ALL_CODES[i] = code]
RowFull(code) ==
    [isdict |-> TRUE,
     variable |-> ListVal(<<Item("Country", JStr(<<code>>), JStr(<<NameOf(code)>>)),
                            Item("Series", JStr(<<"X.1">>), JStr(<<"Test Series">>)),
                            Item("Time", JStr(Chars2020), JStr(<<"2020">>))>>),
     value |-> JStr(<<"5", ".", "3">>)]
RowBare ==
    [isdict |-> TRUE,
     variable |-> ListVal(<<Item("Series", JStr(<<"X.2">>), JStr(<<"Other Series">>)),
                            Item("Time", JStr(<<"Y", "R", "1", "9", "X", "X">>),
                                 JStr(<<"19XX">>))>>),
     value |-> JNull]
RowJunk == [isdict |-> FALSE, variable |-> ListVal(<<>>), value |-> JNull]
RawRows(code) == {RowFull(code), RowBare, RowJunk}

\* the row lists ("source"."data") a body may carry
RowLists(code) ==
    {<<>>, <<RowJunk>>, <<RowFull(code), RowJunk>>, <<RowBare, RowFull(code)>>}

\* The flattening of every row list the source may send, worked out once:
\* Flatten(rows) is FlattenRows(rows) for the lists of this model.
AllRowLists == UNION {RowLists(country_codes[c]) : c \in Countries}
Flattened == [rows \in AllRowLists |-> FlattenRows(rows)]
Flatten(rows) == Flattened[rows]

\* the total-page counts a body may report
PageCounts == 0..MaxPages

\* The bodies a successful request may decode to: the empty object, a full
\* body with or without "pages", and bodies without "source" or without
\* "source"."data".
Payloads(code) ==
    {EmptyDict}
    \cup {Body(TRUE, n, TRUE, TRUE, rows) : n \in PageCounts, rows \in RowLists(code)}
    \cup {Body(FALSE, 0, TRUE, TRUE, rows) : rows \in RowLists(code)}
    \cup {Body(TRUE, MaxPages, FALSE, FALSE, <<>>), Body(TRUE, MaxPages, TRUE, FALSE, <<>>)}

\* ------------------------------------------------------------------ state
VARIABLES
    pc,               \* where the script is
    ci,               \* index into country_codes of the country being processed
    max_retries,      \* fetch_one_page's max_retries
    delay,            \* fetch_one_page's delay
    fc,               \* the running (or last) call of fetch_one_page
    payload,          \* page 1's payload of the current country
    total_pages,
    p,                \* the page number of the remaining-pages loop
    dfs_this_country,
    all_country_dfs,
    df,               \* the combined frame; def is FALSE while the name is unbound
    csv,              \* data/<code>_raw.csv per country
    combined_csv,     \* data/all_countries_combined.csv
    attached,         \* countries whose logger has its handlers attached
    closed,           \* countries whose handlers were closed
    outcome,          \* per country: how its processing ended
    first,            \* per country: what the page-1 fetch brought back
    beyond,           \* countries for which a page >= 2 was requested
    trace,            \* what was done for which page of the current country, in order
    summary,          \* the final summary's numbers
    call              \* a direct call of to_lookup / parse_rows: its row and result

vars == <<pc, ci, max_retries, delay, call, fc, payload, total_pages, p,
          dfs_this_country, all_country_dfs, df, csv, combined_csv, attached,
          closed, outcome, first, beyond, trace, summary>>

\* everything but pc and fc: what a fetch attempt leaves alone
loopvars == <<ci, max_retries, delay, call, payload, total_pages, p,
              dfs_this_country, all_country_dfs, df, csv, combined_csv, attached,
              closed, outcome, first, beyond, trace, summary>>

\* the same without the direct call
loopvars_but_call == <<ci, max_retries, delay, payload, total_pages, p,
              dfs_this_country, all_country_dfs, df, csv, combined_csv, attached,
              closed, outcome, first, beyond, trace, summary>>

Unbound == [def |-> FALSE, rows |-> <<>>]
NoFile == [saved |-> FALSE, rows |-> <<>>]
NoSummary == [def |-> FALSE, rows |-> 0, countries |-> 0, series |-> 0]
Ev(e, page) == [ev |-> e, page |-> page]

\* a fresh activation of fetch_one_page returning to `site`
NewCall(site) ==
    [site |-> site, st |-> "running", attempt |-> 0, reqs |-> 0, fails |-> 0,
     slept |-> <<>>, warns |-> 0, errs |-> 0, body |-> PyNone, ret |-> PyNone]

\* no activation of fetch_one_page: the caller has taken the returned value
IdleCall == [NewCall("page1") EXCEPT !.st = "idle"]

\* ---------------------------------------------------------- fetch_one_page
\* the backoff computed from the 0-based loop index
BackoffZeroBased(d, attempt) == d * attempt

\* time.sleep(delay * (attempt + 1))
Backoff(d, attempt) == d * (attempt + 1)

\* a check that always finds attempts left
AttemptsRemainAlways(attempt, retries) == TRUE

\* if attempt < max_retries - 1
AttemptsRemain(attempt, retries) == attempt < retries - 1

\* return r.json()
ReturnOf(decoded) == decoded

\* One attempt whose request succeeds: r.raise_for_status() passes and the
\* decoded body is returned.  fc.body keeps what the source sent.
AttemptOK ==
    /\ pc = "fetch"
    /\ fc.attempt < max_retries
    /\ \E pl \in Payloads(country_codes[ci]) :
          fc' = [fc EXCEPT !.reqs = @ + 1, !.st = "returned", !.body = pl,
                           !.ret = ReturnOf(pl)]
    /\ pc' = fc.site
    /\ UNCHANGED loopvars

\* What a failing request raises: requests.get raises ConnectionError or
\* Timeout, r.raise_for_status() raises HTTPError.
RequestErrors == {"ConnectionError", "Timeout", "HTTPError"}

\* except requests.exceptions.RequestException: all three are subclasses
Handles(exc) == exc \in {"ConnectionError", "Timeout", "HTTPError"}

\* One attempt whose request raises: when the except clause handles it, a
\* warning, then the backoff sleep and the next attempt, or the error log and
\* return {}; an exception it does not handle leaves the function.
AttemptFail ==
    /\ pc = "fetch"
    /\ fc.attempt < max_retries
    /\ \E exc \in RequestErrors :
         IF Handles(exc)
         THEN IF AttemptsRemain(fc.attempt, max_retries)
              THEN /\ fc' = [fc EXCEPT !.reqs = @ + 1, !.fails = @ + 1, !.warns = @ + 1,
                                       !.slept = Append(@, Backoff(delay, fc.attempt)),
                                       !.attempt = @ + 1]
                   /\ pc' = pc
              ELSE /\ fc' = [fc EXCEPT !.reqs = @ + 1, !.fails = @ + 1, !.warns = @ + 1,
                                       !.errs = @ + 1, !.st = "returned", !.ret = EmptyDict]
                   /\ pc' = fc.site
         ELSE /\ fc' = [fc EXCEPT !.reqs = @ + 1, !.fails = @ + 1, !.st = "raised"]
              /\ pc' = "crashed"
    /\ UNCHANGED loopvars

\* range(max_retries) is empty: the function falls off its end and returns None
FallOff ==
    /\ pc = "fetch"
    /\ fc.attempt >= max_retries
    /\ fc' = [fc EXCEPT !.st = "returned", !.ret = PyNone]
    /\ pc' = fc.site
    /\ UNCHANGED loopvars

\* ------------------------------------------------------ the extraction loop
Code == country_codes[ci]
Log(e, page) == Append(trace, Ev(e, page))

\* `continue` of the country loop, or the end of its body: on to the next
\* code.  total_pages and p are dead from here on (each is assigned again on
\* lines 142 and 158 before it is read), so they are cleared.
NextCountry ==
    /\ ci' = ci + 1
    /\ pc' = "setup"
    /\ total_pages' = 1
    /\ p' = 1

\* Top of the country loop: the logger of this code gets its file and console
\* handlers, params and dfs_this_country are reset, page 1 is requested.
\* The previous country's payload is not read again (line 136 assigns it
\* before any read), so it is cleared.
Setup ==
    /\ pc = "setup"
    /\ ci <= Len(country_codes)
    /\ attached' = attached \cup {ci}
    /\ dfs_this_country' = <<>>
    /\ trace' = <<Ev("fetch", 1)>>
    /\ payload' = PyNone
    /\ fc' = NewCall("page1")
    /\ pc' = "fetch"
    /\ UNCHANGED <<ci, max_retries, delay, call, total_pages, p,
                   all_country_dfs, df, csv, combined_csv, closed, outcome, first,
                   beyond, summary>>

\* rows_p = payload.get("source", {}).get("data", []): the rows the loop body
\* parses for page p are read from `payload`, page 1's body
RowsOfPage(pl, pl_p) == DataOf(pl)

\* a loop head that takes the bound from the page fetched last
LoopHeadLatestPages(q, total, tr) ==
    IF q <= (IF Truthy(fc.ret) THEN PagesOf(fc.ret) ELSE total)
    THEN /\ p' = q
         /\ trace' = Append(tr, Ev("fetch", q))
         /\ beyond' = beyond \cup {ci}
         /\ fc' = NewCall("pagep")
         /\ pc' = "fetch"
    ELSE /\ p' = p
         /\ trace' = tr
         /\ beyond' = beyond
         /\ fc' = IdleCall
         /\ pc' = "finalize"

\* for p in range(2, total_pages + 1): the head of the remaining-pages loop,
\* entered with the next page number q
LoopHead(q, total, tr) ==
    IF q <= total
    THEN /\ p' = q
         /\ trace' = Append(tr, Ev("fetch", q))
         /\ beyond' = beyond \cup {ci}
         /\ fc' = NewCall("pagep")
         /\ pc' = "fetch"
    ELSE /\ p' = p
         /\ trace' = tr
         /\ beyond' = beyond
         /\ fc' = IdleCall
         /\ pc' = "finalize"

\* `break` in the place of `continue`: a page without response ends the loop
OnNoResponseBreak(q, total, tr) ==
    /\ p' = p
    /\ trace' = tr
    /\ beyond' = beyond
    /\ fc' = IdleCall
    /\ pc' = "finalize"

\* `continue` of the remaining-pages loop: on to the next page number
OnNoResponse(q, total, tr) == LoopHead(q, total, tr)

\* a frame that never counts as empty
FrameEmptyNever(frame) == FALSE

\* DataFrame.empty
FrameEmpty(frame) == frame = <<>>

\* what the page-1 fetch brought back, whatever the script makes of it
Seen(ret) ==
    IF ~Truthy(ret) THEN "empty"
    ELSE IF Flatten(DataOf(ret)) = <<>> THEN "no_rows" ELSE "rows"

\* After fetch_one_page returned for page 1 (payload = fetch_one_page(...)):
\* skip the country on a falsy payload or an empty first page, else keep
\* page 1 and enter the loop.
Page1 ==
    /\ pc = "page1"
    /\ payload' = fc.ret
    /\ first' = [first EXCEPT ![ci] = Seen(fc.ret)]
    /\ UNCHANGED <<max_retries, delay, call, all_country_dfs, df, csv,
                   combined_csv, attached, closed, summary>>
    /\ IF ~Truthy(fc.ret)
       THEN /\ outcome' = [outcome EXCEPT ![ci] = "no_payload"]
            /\ NextCountry
            /\ fc' = IdleCall
            /\ UNCHANGED <<dfs_this_country, trace, beyond>>
       ELSE LET df_page1 == Flatten(DataOf(fc.ret))
            IN IF ~FrameEmpty(df_page1)
               THEN /\ total_pages' = PagesOf(fc.ret)
                    /\ dfs_this_country' = Append(dfs_this_country, Coerce(df_page1))
                    /\ LoopHead(2, PagesOf(fc.ret), Log("append", 1))
                    /\ UNCHANGED <<ci, outcome>>
               ELSE /\ outcome' = [outcome EXCEPT ![ci] = "page1_empty"]
                    /\ NextCountry
                    /\ fc' = IdleCall
                    /\ UNCHANGED <<dfs_this_country, trace, beyond>>

\* payload_p = fetch_one_page(url, params): the value the call returned
payload_p == fc.ret

\* What the trace keeps of a skipped page: the skip, and before it whether
\* the call had used up its attempts.
Skipped(page) ==
    IF fc.fails >= max_retries
    THEN <<Ev("exhausted", page), Ev("skip", page)>>
    ELSE <<Ev("skip", page)>>

\* an append with the politeness delay left out
AppendedNoSleep(page) == <<Ev("append", page)>>

\* dfs_this_country.append(df_p); time.sleep(0.2)
Appended(page) == <<Ev("append", page), Ev("sleep", page)>>

\* After fetch_one_page returned for page p >= 2: skip the page on a falsy
\* payload, stop on an empty frame, else append it, sleep and go on.
PageP ==
    /\ pc = "pagep"
    /\ UNCHANGED <<ci, max_retries, delay, call, payload, total_pages,
                   all_country_dfs, df, csv, combined_csv, attached, closed, outcome, first, summary>>
    /\ IF ~Truthy(payload_p)
       THEN /\ dfs_this_country' = dfs_this_country
            /\ OnNoResponse(p + 1, total_pages, trace \o Skipped(p))
       ELSE LET df_p == Flatten(RowsOfPage(payload, payload_p))
            IN IF FrameEmpty(df_p)
               THEN /\ dfs_this_country' = dfs_this_country
                    /\ trace' = Log("stop", p)
                    /\ pc' = "finalize"
                    /\ fc' = IdleCall
                    /\ UNCHANGED <<p, beyond>>
               ELSE /\ dfs_this_country' = Append(dfs_this_country, Coerce(df_p))
                    /\ LoopHead(p + 1, total_pages, trace \o Appended(p))

\* all_country_dfs.insert(0, df_country)
AccumulateFront(all, df_country) == <<df_country>> \o all

\* all_country_dfs.append(df_country)
Accumulate(all, df_country) == Append(all, df_country)

\* a to_csv that writes nothing
PersistNothing(files, c, df_country) == files

\* df_country.to_csv(f"data/{code}_raw.csv", index=False)
Persist(files, c, df_country) ==
    [files EXCEPT ![c] = [saved |-> TRUE, rows |-> df_country]]

\* Finalize this country: concatenate, tag, keep and save; then detach and
\* close the handlers.
Finalize ==
    /\ pc = "finalize"
    /\ IF dfs_this_country # <<>>
       THEN LET df_country == Tagged(Concat(dfs_this_country), Code)
            IN /\ all_country_dfs' = Accumulate(all_country_dfs, df_country)
               /\ csv' = Persist(csv, ci, df_country)
               /\ outcome' = [outcome EXCEPT ![ci] = "finished"]
       ELSE /\ outcome' = [outcome EXCEPT ![ci] = "no_data"]
            /\ UNCHANGED <<all_country_dfs, csv>>
    /\ attached' = attached \ {ci}
    /\ closed' = closed \cup {ci}
    /\ NextCountry
    /\ UNCHANGED <<max_retries, delay, call, fc, payload, dfs_this_country, df,
                   combined_csv, first, beyond, trace, summary>>

\* Combine all results, once the country loop is over.
Combine ==
    /\ pc = "setup"
    /\ ci > Len(country_codes)
    /\ IF all_country_dfs # <<>>
       THEN /\ df' = [def |-> TRUE, rows |-> Concat(all_country_dfs)]
            /\ combined_csv' = [saved |-> TRUE, rows |-> Concat(all_country_dfs)]
       ELSE UNCHANGED <<df, combined_csv>>
    /\ pc' = "summary"
    /\ UNCHANGED <<ci, max_retries, delay, call, fc, payload, total_pages, p,
                   dfs_this_country, all_country_dfs, csv, attached, closed,
                   outcome, first, beyond, trace, summary>>

\* Final summary: logger.info("Total rows:", len(df)) and the two nunique
\* counts.  `df` (and, with no country at all, `logger`) may be unbound:
\* NameError ends the script.
Summary ==
    /\ pc = "summary"
    /\ IF df.def /\ Len(country_codes) > 0
       THEN /\ summary' = [def |-> TRUE, rows |-> Len(df.rows),
                           countries |-> NUnique({df.rows[i].country_id : i \in 1..Len(df.rows)}),
                           series |-> NUnique({df.rows[i].series_id : i \in 1..Len(df.rows)})]
            /\ pc' = "done"
       ELSE /\ summary' = summary
            /\ pc' = "crashed"
    /\ UNCHANGED <<ci, max_retries, delay, call, fc, payload, total_pages, p,
                   dfs_this_country, all_country_dfs, df, csv, combined_csv,
                   attached, closed, outcome, first, beyond, trace>>

\* ------------------------------------------------------- specifications
InitCommon ==
    /\ ci = 1
    /\ payload = PyNone
    /\ total_pages = 1
    /\ p = 1
    /\ dfs_this_country = <<>>
    /\ all_country_dfs = <<>>
    /\ df = Unbound
    /\ csv = [c \in Countries |-> NoFile]
    /\ combined_csv = NoFile
    /\ attached = {}
    /\ closed = {}
    /\ outcome = [c \in Countries |-> "none"]
    /\ first = [c \in Countries |-> "none"]
    /\ beyond = {}
    /\ trace = <<>>
    /\ summary = NoSummary

\* no direct call of to_lookup / parse_rows
NoRecord == [country_id |-> JNull, country_name |-> JNull, series_id |-> JNull,
             series_name |-> JNull, year |-> JNull, value |-> JNull]
NoCall == [st |-> "none", row |-> RowJunk, lookup |-> [c \in {} |-> NoItem],
           parsed |-> NoRecord]

\* The script: fetch_one_page is always called with its defaults.
Init ==
    /\ InitCommon
    /\ pc = "setup"
    /\ max_retries = DefaultMaxRetries
    /\ delay = DefaultDelay
    /\ fc = IdleCall
    /\ call = NoCall

Next ==
    \/ Setup
    \/ AttemptOK
    \/ AttemptFail
    \/ Page1
    \/ PageP
    \/ Finalize
    \/ Combine
    \/ Summary

Spec == Init /\ [][Next]_vars

\* One direct call fetch_one_page(url, params, max_retries, delay) with the
\* arguments drawn from their bounded ranges.
InitFetch ==
    /\ InitCommon
    /\ pc = "fetch"
    /\ max_retries \in 0..MaxRetriesBound
    /\ delay \in 0..MaxDelay
    /\ fc = NewCall("direct")
    /\ call = NoCall

NextFetch ==
    \/ AttemptOK
    \/ AttemptFail
    \/ FallOff

\* The script run to its end: one thread executes the statements in order;
\* every request returns or raises within its timeout (timeout=60) and every
\* sleep ends, so a step that can be taken is taken.
SpecLive == Init /\ [][Next]_vars /\ WF_vars(Next)

SpecFetch == InitFetch /\ [][NextFetch]_vars

\* ------------------------------------------- to_lookup and parse_rows alone
\* One direct call of to_lookup or of parse_rows on a raw row drawn from the
\* rows below: every concept list of up to MaxItems entries (and None), and
\* every time identifier made of a two-character start and up to MaxSuffix
\* further characters (and identifiers that are not text).
SeqsUpTo(S, n) == UNION {[1..k -> S] : k \in 0..n}

\* an entry that is not a dict
NotADict == [isdict |-> FALSE, hasconcept |-> FALSE, concept |-> "",
             id |-> JStr(<<"junk">>), value |-> JStr(<<"junk">>)]
\* a dict without a "concept" key
Unnamed == [isdict |-> TRUE, hasconcept |-> FALSE, concept |-> "",
            id |-> JStr(<<"ZZ">>), value |-> JStr(<<"No Concept">>)]
Entries ==
    {Item("Country", JStr(<<"EGY">>), JStr(<<"Egypt">>)),
     Item("Country", JStr(<<"MAR">>), JStr(<<"Morocco">>)),
     Item("Series", JStr(<<"X.1">>), JStr(<<"Test Series">>)),
     Item("Time", JStr(Chars2020), JStr(<<"2020">>)),
     Unnamed, NotADict}
ConceptLists == {NoList} \cup {ListVal(items) : items \in SeqsUpTo(Entries, MaxItems)}

TimeStarts == {<<"Y", "R">>, <<"y", "r">>, <<"1", "9">>}
TimeChars == {"1", "9", "X", "-", "_"}
TimeIds ==
    {JNull, JInt(1998), JStr(<<>>), JStr(<<"Y">>)}
    \cup {JStr(a \o b) : a \in TimeStarts, b \in SeqsUpTo(TimeChars, MaxSuffix)}

RawRow(var_list, value) == [isdict |-> TRUE, variable |-> var_list, value |-> value]
ParseInputs ==
    {RawRow(v, x) : v \in ConceptLists, x \in {JNull, JStr(<<"5", ".", "3">>)}}
    \cup {RawRow(ListVal(<<Item("Time", t, JStr(<<"when">>))>>), JInt(7)) : t \in TimeIds}

InitParse ==
    /\ InitCommon
    /\ pc = "call"
    /\ max_retries = DefaultMaxRetries
    /\ delay = DefaultDelay
    /\ fc = IdleCall
    /\ \E row \in ParseInputs : call = [NoCall EXCEPT !.st = "called", !.row = row]

\* lk = to_lookup(var_list)
ToLookupCall ==
    /\ pc = "call"
    /\ call.st = "called"
    /\ call' = [call EXCEPT !.st = "lookup", !.lookup = to_lookup(call.row.variable)]
    /\ UNCHANGED <<pc, fc, loopvars_but_call>>

\* parsed = parse_rows(row)
ParseRowsCall ==
    /\ pc = "call"
    /\ call.st = "called"
    /\ call' = [call EXCEPT !.st = "parsed", !.parsed = parse_rows(call.row)]
    /\ UNCHANGED <<pc, fc, loopvars_but_call>>

NextParse ==
    \/ ToLookupCall
    \/ ParseRowsCall

SpecParse == InitParse /\ [][NextParse]_vars

\* ================================================================ claims

\* the call of fetch_one_page is over and every request it made failed
AllAttemptsFailed == fc.st = "returned" /\ fc.reqs = fc.fails

C2_EmptyIffExhausted ==
    /\ fc.st # "raised"
    /\ pc # "crashed"
    /\ fc.warns = fc.fails
    /\ (fc.st = "returned" /\ max_retries >= 1) =>
          /\ fc.reqs > fc.fails => (fc.ret = fc.body /\ fc.reqs = fc.fails + 1)
          /\ fc.ret = EmptyDict <=> fc.fails = max_retries
          /\ fc.errs = (IF fc.fails = max_retries THEN 1 ELSE 0)

IsPrefix(a, b) == Len(a) <= Len(b) /\ SubSeq(b, 1, Len(a)) = a
Last(seq) == seq[Len(seq)]

\* how many rows of the accumulated frames carry requested_country = code
TaggedRows(code) ==
    LET all == Concat(all_country_dfs)
        idx == {i \in 1..Len(all) : all[i].requested_country = code}
    IN Cardinality(idx)

\* C3: when a page p >= 2 of a country with a non-empty page 1 comes back as
\* a body whose own rows flatten to nothing, pagination stops at p: nothing is
\* appended and no later page is requested.
C3_StopsAtOwnEmptyPage ==
    [][(pc = "pagep" /\ Truthy(payload_p) /\ Flatten(DataOf(payload_p)) = <<>>)
          => (pc' = "finalize" /\ dfs_this_country' = dfs_this_country)]_vars

\* C4: a country whose page-1 fetch returned Empty, or whose page 1 flattened
\* to no record, is never asked for a page >= 2 and has an empty dataset:
\* nothing accumulated, nothing saved, nothing in the combined frames.
C4_NoPageBeyondEmptyFirst ==
    \A c \in Countries :
        first[c] \in {"empty", "no_rows"} =>
            /\ c \notin beyond
            /\ ~csv[c].saved
            /\ TaggedRows(country_codes[c]) = 0
            /\ (ci = c + 1 /\ pc = "setup") =>
                   (dfs_this_country = <<>> /\ trace = <<Ev("fetch", 1)>>)

\* C4 witness: the first country's page 1 reported MaxPages pages and no
\* usable row; the script has moved on without requesting page 2
C4_Witness ==
    /\ pc = "setup" /\ ci = 2
    /\ first[1] = "no_rows"
    /\ Truthy(payload) /\ PagesOf(payload) = MaxPages
    /\ beyond = {}

C6_RowsFromOwnPage ==
    [][(pc = "pagep" /\ Truthy(payload_p))
          => LET own == Coerce(Flatten(DataOf(payload_p)))
             IN IF own = <<>>
                THEN dfs_this_country' = dfs_this_country
                ELSE dfs_this_country' = Append(dfs_this_country, own)]_vars

\* the rows of a frame that carry requested_country = code, in order
RowsOf(frame, code) ==
    LET Mine(r) == r.requested_country = code
    IN SelectSeq(frame, Mine)

\* the per-country files' rows, concatenated in the order of country_codes
RECURSIVE FilesInOrder(_)
FilesInOrder(c) ==
    IF c > Len(country_codes) THEN <<>> ELSE csv[c].rows \o FilesInOrder(c + 1)

\* C7: the combined dataset is the concatenation of the non-empty per-country
\* datasets in the order of country_codes, each country's rows in their own
\* order, none interleaved, dropped or repeated.
C7_CombinedInOrder ==
    /\ Concat(all_country_dfs) = FilesInOrder(1)
    /\ df.def => (df.rows = FilesInOrder(1) /\ combined_csv.rows = df.rows)
    /\ \A c \in Countries :
          /\ RowsOf(Concat(all_country_dfs), country_codes[c]) = csv[c].rows
          /\ (pc = "setup" /\ ci = c + 1 /\ csv[c].saved) =>
                 csv[c].rows = Tagged(Concat(dfs_this_country), country_codes[c])

\* C7 witness: both countries brought data, the first two rows per page, and
\* the combined frame was written
C7_Witness ==
    /\ pc = "done"
    /\ \A c \in Countries : csv[c].saved
    /\ Len(csv[1].rows) >= 2
    /\ Len(df.rows) > Len(csv[1].rows)

\* the country identifiers found in the combined frame
CountryIds == {df.rows[i].country_id : i \in 1..Len(df.rows)}

\* C8: a processed country has its file written and its rows in the combined
\* accumulator exactly when its pagination brought records (its page 1 had
\* rows); a country with an empty page 1 adds no row, and the summary's
\* distinct-country count does not count its identifier.
C8_PersistedIffData ==
    /\ \A c \in Countries :
          c < ci =>
             /\ csv[c].saved <=> first[c] = "rows"
             /\ csv[c].saved <=> TaggedRows(country_codes[c]) > 0
             /\ csv[c].saved => csv[c].rows # <<>>
             /\ first[c] # "rows" => JStr(<<country_codes[c]>>) \notin CountryIds
    /\ pc = "done" =>
          /\ summary.def
          /\ summary.countries = Cardinality({c \in Countries : first[c] = "rows"})

\* C8 witness: the first country's page 1 was empty, the second brought data,
\* and the summary counts one country
C8_Witness ==
    /\ pc = "done"
    /\ first[1] = "no_rows" /\ ~csv[1].saved
    /\ first[2] = "rows" /\ csv[2].saved
    /\ summary.countries = 1

\* C9: when no country yields data the run still ends normally: nothing is
\* persisted as the combined artifact and the final summary is reached
\* without a fatal error.
C9_NoDataRunCompletes ==
    (\A c \in Countries : first[c] \in {"empty", "no_rows"}) =>
        (pc # "crashed" /\ ~combined_csv.saved)

\* C10: whichever way a country's processing ends, its handlers are detached
\* and closed before the next country begins; the handlers of at most one
\* country are attached at any time.
C10_HandlersDetached ==
    /\ Cardinality(attached) <= 1
    /\ pc = "setup" => attached = {}
    /\ \A c \in Countries : c < ci => c \in closed

\* C11: a page-1 body that decoded to a non-empty object is handled without
\* the script failing: without "pages" the total is 1, so its rows are kept
\* and no further page is requested; without "source" or "source"."data" it
\* has zero rows, the country is left with no frame and the "page 1 empty"
\* warning; and every country that reaches its end gets its log entry.
C11_AbsentFieldsTolerated ==
    [][/\ (pc = "page1" /\ Truthy(fc.ret)) =>
            /\ pc' \in {"fetch", "finalize", "setup"}
            /\ (~fc.ret.haspages /\ Flatten(DataOf(fc.ret)) # <<>>) =>
                    /\ total_pages' = 1
                    /\ pc' = "finalize"
                    /\ beyond' = beyond
                    /\ dfs_this_country' = <<Coerce(Flatten(fc.ret.data))>>
            /\ (~fc.ret.hassource \/ ~fc.ret.hasdata) =>
                    /\ first'[ci] = "no_rows"
                    /\ outcome'[ci] = "page1_empty"
                    /\ dfs_this_country' = <<>>
                    /\ ci' = ci + 1
                    /\ pc' = "setup"
       /\ pc = "finalize" =>
            /\ outcome'[ci] \in {"finished", "no_data"}
            /\ pc' = "setup"]_vars

\* C11 witness: the first country's page 1 came without "pages" and with
\* rows; the total is 1 and the country is about to be finalized with the one
\* frame.
C11_Witness ==
    /\ pc = "finalize"
    /\ ci = 1
    /\ Truthy(payload)
    /\ ~payload.haspages
    /\ total_pages = 1
    /\ Len(dfs_this_country) = 1
    /\ 1 \notin beyond

\* the one entry of a concept list that holds just a "Time" entry
OnlyTime(row) ==
    /\ ~row.variable.isnone
    /\ Len(row.variable.items) = 1
    /\ row.variable.items[1].isdict
    /\ row.variable.items[1].hasconcept
    /\ row.variable.items[1].concept = "Time"

\* text that is "YR" followed by one or more digits
IsYRDigits(time_id) ==
    /\ time_id.t = "str"
    /\ Len(time_id.s) >= 3
    /\ time_id.s[1] = "Y" /\ time_id.s[2] = "R"
    /\ \A i \in 3..Len(time_id.s) : IsDigit(time_id.s[i])

\* C12: parse_rows gives a year exactly when the time identifier is text made
\* of "YR" and one or more digits, and then the year is the number the digits
\* spell; for every other identifier the year is absent.
C12_YearIffYRDigits ==
    (call.st = "parsed" /\ OnlyTime(call.row)) =>
        LET time_id == call.row.variable.items[1].id
        IN IF IsYRDigits(time_id)
           THEN call.parsed.year = JInt(DecVal(SubSeq(time_id.s, 3, Len(time_id.s))))
           ELSE call.parsed.year = JNull

\* the entries of a concept list, none for None
EntriesOf(row) == IF row.variable.isnone THEN <<>> ELSE row.variable.items
\* the positions of the entries that are records with a concept name
WellFormed(items) == {i \in 1..Len(items) : items[i].isdict /\ items[i].hasconcept}
\* the last well-formed entry named n
LastNamed(items, n) ==
    items[CHOOSE i \in WellFormed(items) :
            /\ items[i].concept = n
            /\ \A j \in WellFormed(items) : items[j].concept = n => j <= i]

\* C13: for every concept list, None included, to_lookup returns a mapping
\* whose keys are exactly the concept names of the well-formed entries, each
\* mapped to the last entry of that name in list order; entries that are not
\* records or have no concept name add nothing; the list is left as it was.
C13_LookupLastWins ==
    [][(call.st = "called" /\ call'.st = "lookup") =>
          LET items == EntriesOf(call.row)
              names == {items[i].concept : i \in WellFormed(items)}
          IN /\ DOMAIN call'.lookup = names
             /\ \A n \in names : call'.lookup[n] = LastNamed(items, n)
             /\ call'.row = call.row]_vars

\* C13 witness: to_lookup was called on a list with two "Country" entries
\* around an entry that is not a record, and the mapping holds the second.
C13_Witness ==
    /\ call.st = "lookup"
    /\ Len(EntriesOf(call.row)) = 3
    /\ EntriesOf(call.row)[1] = Item("Country", JStr(<<"EGY">>), JStr(<<"Egypt">>))
    /\ EntriesOf(call.row)[2] = NotADict
    /\ EntriesOf(call.row)[3] = Item("Country", JStr(<<"MAR">>), JStr(<<"Morocco">>))
    /\ DOMAIN call.lookup = {"Country"}
    /\ call.lookup["Country"].id = JStr(<<"MAR">>)

\* the concept list has a well-formed entry named n
HasConcept(items, n) == \E i \in WellFormed(items) : items[i].concept = n

\* C14: for every raw row parse_rows returns a record; country_id and
\* country_name are absent when the concept list has no "Country" entry and
\* are that entry's id and value when it has one, and likewise series_id and
\* series_name for "Series"; the value is the row's value.
C14_FieldsFromEntries ==
    call.st = "parsed" =>
        LET items == EntriesOf(call.row)
            r == call.parsed
        IN /\ DOMAIN r = {"country_id", "country_name", "series_id", "series_name",
                          "year", "value"}
           /\ IF HasConcept(items, "Country")
              THEN /\ r.country_id = LastNamed(items, "Country").id
                   /\ r.country_name = LastNamed(items, "Country").value
              ELSE r.country_id = JNull /\ r.country_name = JNull
           /\ IF HasConcept(items, "Series")
              THEN /\ r.series_id = LastNamed(items, "Series").id
                   /\ r.series_name = LastNamed(items, "Series").value
              ELSE r.series_id = JNull /\ r.series_name = JNull
           /\ r.value = call.row.value

\* C14 witness: parse_rows was called on a row whose concept list has a
\* "Series" entry and an entry without concept name, but no "Country" entry.
C14_Witness ==
    /\ call.st = "parsed"
    /\ HasConcept(EntriesOf(call.row), "Series")
    /\ ~HasConcept(EntriesOf(call.row), "Country")
    /\ \E i \in 1..Len(EntriesOf(call.row)) : EntriesOf(call.row)[i] = Unnamed
    /\ call.parsed.country_id = JNull
    /\ call.parsed.country_name = JNull
    /\ call.parsed.series_id = JStr(<<"X.1">>)
    /\ call.parsed.series_name = JStr(<<"Test Series">>)

\* the record of the end-to-end scenario
EGYRecord ==
    [country_id |-> JStr(<<"EGY">>), country_name |-> JStr(<<"Egypt">>),
     series_id |-> JStr(<<"X.1">>), series_name |-> JStr(<<"Test Series">>),
     year |-> JInt(2020), value |-> JFloat(53), requested_country |-> "EGY"]

\* The end-to-end scenario is over: "EGY" was the first country, its page 1
\* reported pages: 1 and carried two rows, one of them the EGY row, and the
\* country loop has moved on to the second country.
ScenarioEGY ==
    /\ country_codes[1] = "EGY"
    /\ pc = "setup" /\ ci = 2
    /\ Truthy(payload)
    /\ payload.haspages /\ payload.pages = 1
    /\ payload.hassource /\ payload.hasdata
    /\ Len(payload.data) = 2
    /\ \E i \in 1..2 : payload.data[i] = RowFull("EGY")

\* C15 as stated: in the scenario no page beyond 1 is requested and the
\* country's dataset is exactly the one EGY record.
C15_ScenarioOneRecord ==
    ScenarioEGY =>
        /\ 1 \notin beyond
        /\ csv[1].saved
        /\ csv[1].rows = <<EGYRecord>>

\* C15 amended: in the scenario no page beyond 1 is requested and the
\* country's dataset has one record per row that is an object, in row order,
\* each tagged "EGY"; the EGY row gives the EGY record, which is the whole
\* dataset when the other row is not an object.
C15_ScenarioRecordPerObject ==
    ScenarioEGY =>
        LET data == payload.data
            objs == {i \in 1..2 : data[i].isdict}
        IN /\ 1 \notin beyond
           /\ csv[1].saved
           /\ Len(csv[1].rows) = Cardinality(objs)
           /\ \A i \in objs :
                 LET k == Cardinality({j \in objs : j <= i})
                 IN /\ csv[1].rows[k].requested_country = "EGY"
                    /\ data[i] = RowFull("EGY") => csv[1].rows[k] = EGYRecord

\* C15 witness: the scenario with the EGY row and an entry that is not an
\* object; the dataset is the one EGY record.
C15_Witness ==
    /\ ScenarioEGY
    /\ \E i \in 1..2 : ~payload.data[i].isdict
    /\ csv[1].rows = <<EGYRecord>>

IsFetch(e) == e.ev = "fetch"
\* the fetch calls made so far for the current country, in order
Fetched == SelectSeq(trace, IsFetch)
\* the total page 1 reported, 1 when it reported none (or is not back yet)
ReportedTotal == IF Truthy(payload) THEN PagesOf(payload) ELSE 1

Completed == pc \in {"summary", "done", "crashed"} /\ ci = Len(country_codes) + 1

C18_DelayAfterAppendedPage ==
    \A i \in 1..Len(trace) :
        /\ trace[i].ev = "sleep" =>
              /\ trace[i].page >= 2
              /\ i > 1
              /\ trace[i - 1] = Ev("append", trace[i].page)
        /\ (trace[i].ev = "append" /\ trace[i].page >= 2) =>
              /\ i < Len(trace)
              /\ trace[i + 1] = Ev("sleep", trace[i].page)
        /\ (trace[i].ev \in {"skip", "stop", "exhausted"} \/ trace[i] = Ev("append", 1)) =>
              (i < Len(trace) => trace[i + 1].ev # "sleep")
        /\ (trace[i].ev = "fetch" /\ i > 1 /\ trace[i - 1].ev = "sleep") =>
              (i > 2 /\ trace[i - 2].ev = "append")

\* C18 witness: page 2 was appended and followed by the delay, page 3 was
\* then requested and skipped without a delay.
C18_Witness ==
    /\ pc = "finalize"
    /\ \E i \in 1..Len(trace) :
          /\ trace[i] = Ev("append", 2)
          /\ i + 3 <= Len(trace)
          /\ trace[i + 1] = Ev("sleep", 2)
          /\ trace[i + 2] = Ev("fetch", 3)
          /\ trace[i + 3].ev \in {"skip", "exhausted"}
    /\ trace[Len(trace)] = Ev("skip", 3)
    /\ \A i \in 1..Len(trace) : trace[i].ev = "sleep" => trace[i].page = 2

\* C19: a page is handled as a failed fetch only after max_retries failed
\* attempts: a country is left with 'no payload', and a page p >= 2 is
\* skipped with 'no response', only when the call for that page made
\* max_retries requests that all failed; a call whose request succeeded is
\* never handled that way.
C19_FailedOnlyIfExhausted ==
    [][/\ (pc = "page1" /\ outcome'[ci] = "no_payload") =>
            (fc.fails = max_retries /\ fc.body = PyNone)
       /\ (pc = "pagep" /\ \E i \in 1..Len(trace') : trace'[i] = Ev("skip", p)) =>
            (fc.fails = max_retries /\ fc.body = PyNone)]_vars

\* a record of a dataset is the flat record r with some tag
SameFields(tagged, r) ==
    /\ tagged.country_id = r.country_id /\ tagged.country_name = r.country_name
    /\ tagged.series_id = r.series_id /\ tagged.series_name = r.series_name
    /\ tagged.year = r.year /\ tagged.value = r.value

\* C20: once page 1 of a country came back with at least one record, the
\* country is neither skipped nor does the script fail on pages 2.., the
\* frames kept so far are never dropped, and finalizing saves a dataset that
\* is non-empty, begins with page 1's records in row order, is the one
\* appended to the run's results, and carries the requested code in every
\* record.
C20_FirstPageKept ==
    [][/\ (pc = "page1" /\ Seen(fc.ret) = "rows") =>
            /\ pc' \in {"fetch", "finalize"} /\ ci' = ci
            /\ dfs_this_country' = <<Coerce(Flatten(DataOf(fc.ret)))>>
       /\ (pc = "fetch" /\ fc.site = "pagep") =>
            /\ pc' \in {"fetch", "pagep"} /\ ci' = ci
            /\ dfs_this_country' = dfs_this_country
       /\ pc = "pagep" =>
            /\ pc' \in {"fetch", "finalize"} /\ ci' = ci
            /\ IsPrefix(dfs_this_country, dfs_this_country')
       /\ (pc = "finalize" /\ first[ci] = "rows") =>
            LET page1 == Coerce(Flatten(DataOf(payload)))
                rows == csv'[ci].rows
            IN /\ csv'[ci].saved
               /\ page1 # <<>>
               /\ Len(rows) >= Len(page1)
               /\ \A i \in 1..Len(page1) : SameFields(rows[i], page1[i])
               /\ \A i \in 1..Len(rows) : rows[i].requested_country = country_codes[ci]
               /\ all_country_dfs' # <<>>
               /\ all_country_dfs'[Len(all_country_dfs')] = rows]_vars

\* C20 witness: the second country's page 1 had two records, page 2 used up
\* its attempts, and the dataset saved for the country starts with the two
\* records, tagged with its code.
C20_Witness ==
    /\ pc = "setup" /\ ci = 3
    /\ first[2] = "rows"
    /\ \E i \in 1..Len(trace) : trace[i] = Ev("exhausted", 2)
    /\ csv[2].saved
    /\ Len(csv[2].rows) >= 2
    /\ Len(dfs_this_country) >= 1 /\ Len(dfs_this_country[1]) = 2
    /\ \A i \in 1..2 : SameFields(csv[2].rows[i], dfs_this_country[1][i])
    /\ \A i \in 1..Len(csv[2].rows) : csv[2].rows[i].requested_country = country_codes[2]
====
